---- MODULE Spec2Model ----
(***************************************************************************)
(* The elastic-capacity orchestration of lambda-mi: the video API's        *)
(* triggerProcessing, the Step Functions workflow of LambdaMiStack (scale  *)
(* up, poll until ready, process, scale down), the scaling function and    *)
(* the video processor, over the DynamoDB videos table and the Lambda      *)
(* scaling configuration of the processor function.                        *)
(***************************************************************************)
EXTENDS Integers, Sequences, FiniteSets, TLC

\* ------------------------------------------------------------------ bounds
\* Number of video ids that createVideo can hand out.
MaxVideos == 2
\* Number of workflow executions that can be started (in flight or finished).
MaxExecs == 2
\* Last value of the wall clock read by new Date().
MaxClock == 1
\* Largest number of execution environments, besides the workflow's own
\* values, that a direct invocation of the scaling function asks for.
MaxUnits == 1

\* ------------------------------------------------------- program constants
\* ScaleUpProcessor payload.
HighMin == 100
HighMax == 100
\* ScaleDownProcessor / ScaleDownProcessorOnError payload.
IdleMin == 0
IdleMax == 0

VideoIds == 1..MaxVideos
\* The values of minExecutionEnvironments / maxExecutionEnvironments in events.
Units == (0..MaxUnits) \cup {IdleMin, IdleMax, HighMin, HighMax}
Stages == <<"thumbnail", "transcoding", "analysis", "subtitles">>

VARIABLES
    now,        \* wall clock (Date.now / new Date)
    videos,     \* the DynamoDB videos table: id -> item (only existing ids)
    requested,  \* FunctionScalingConfig last accepted by PutFunctionScalingConfig
    applied,    \* AppliedFunctionScalingConfig as GetFunctionScalingConfig returns it
    pending,    \* triggerProcessing requests between their awaits: id -> [update, start]
    execs,      \* the state machine's executions, in start order
    response,   \* status code of the last response of the video API
    calls       \* the last two direct invocations of the scaling function

vars == <<now, videos, requested, applied, pending, execs, response, calls>>

\* ------------------------------------------------------------ DynamoDB
\* An update that replaces the whole item by the attributes it names.
SetAttributes_Overwrite(item, fields) == fields

\* UpdateItem with a SET expression: the named attributes are written, every
\* other attribute of the item is kept.
SetAttributes(item, fields) ==
    [k \in DOMAIN item \cup DOMAIN fields |->
        IF k \in DOMAIN fields THEN fields[k] ELSE item[k]]

\* An update without its Key: the status is written to every item.
updateVideoStatus_AllItems(table, videoId, status, additionalFields) ==
    [v \in DOMAIN table \cup {videoId} |->
        SetAttributes(IF v \in DOMAIN table THEN table[v] ELSE [id |-> v],
                      SetAttributes([status |-> status], additionalFields))]

\* updateVideoStatus(videoId, status, additionalFields) of the processor.
\* UpdateItem creates the item when the key is absent.
updateVideoStatus(table, videoId, status, additionalFields) ==
    LET old == IF videoId \in DOMAIN table THEN table[videoId] ELSE [id |-> videoId]
        new == SetAttributes(old, SetAttributes([status |-> status], additionalFields))
    IN  (videoId :> new) @@ table

\* generateId(): an id no item has yet (the smallest one: ids are opaque).
generateId == CHOOSE v \in VideoIds \ DOMAIN videos :
                  \A w \in VideoIds \ DOMAIN videos : v <= w

\* ------------------------------------------------------ scaling function
\* x || 0 on a possibly missing attribute.
OrZero(cfg, key) == IF key \in DOMAIN cfg THEN cfg[key] ELSE 0

\* The check reporting ready as soon as one of the two numbers is positive.
CheckScaling_AnyPositive(appliedCfg) ==
    [isReady    |-> OrZero(appliedCfg, "MinExecutionEnvironments") > 0
                    \/ OrZero(appliedCfg, "MaxExecutionEnvironments") > 0,
     appliedMin |-> OrZero(appliedCfg, "MinExecutionEnvironments"),
     appliedMax |-> OrZero(appliedCfg, "MaxExecutionEnvironments")]

\* handler, action === 'check': the response payload.
CheckScaling(appliedCfg) ==
    [isReady    |-> OrZero(appliedCfg, "MinExecutionEnvironments") > 0
                    /\ OrZero(appliedCfg, "MaxExecutionEnvironments") > 0,
     appliedMin |-> OrZero(appliedCfg, "MinExecutionEnvironments"),
     appliedMax |-> OrZero(appliedCfg, "MaxExecutionEnvironments")]

\* handler, scale up or down: the FunctionScalingConfig that is put.
PutScaling(minExecutionEnvironments, maxExecutionEnvironments) ==
    [MinExecutionEnvironments |-> minExecutionEnvironments,
     MaxExecutionEnvironments |-> maxExecutionEnvironments]

NoConfig == [k \in {} |-> 0]

\* handler: the branch taken on the event.
IsCheck(event) == "action" \in DOMAIN event /\ event.action = "check"

\* The events the scaling function is invoked with: the check and the scale
\* payloads.
ScaleEvent(minExecutionEnvironments, maxExecutionEnvironments) ==
    [minExecutionEnvironments |-> minExecutionEnvironments,
     maxExecutionEnvironments |-> maxExecutionEnvironments]
CheckEvent == [action |-> "check"]

\* The scaling configuration of the function as Lambda holds it.
Pool == [requested |-> requested, applied |-> applied]

\* A put adding the configuration to the one requested before.
PutFunctionScalingConfig_Additive(pool, cfg) ==
    [pool EXCEPT !.requested =
        [MinExecutionEnvironments |->
             pool.requested.MinExecutionEnvironments + cfg.MinExecutionEnvironments,
         MaxExecutionEnvironments |->
             pool.requested.MaxExecutionEnvironments + cfg.MaxExecutionEnvironments]]

\* A put that replaces the minimum and keeps the maximum requested before.
PutFunctionScalingConfig_MinOnly(pool, cfg) ==
    [pool EXCEPT !.requested =
        [MinExecutionEnvironments |-> cfg.MinExecutionEnvironments,
         MaxExecutionEnvironments |-> pool.requested.MaxExecutionEnvironments]]

\* PutFunctionScalingConfigCommand accepted: the configuration becomes the
\* requested one; what is applied changes only as the platform provisions.
PutFunctionScalingConfig(pool, cfg) == [pool EXCEPT !.requested = cfg]

\* One invocation as seen from outside: the event, the command the handler
\* sent to Lambda, and the payload returned (or the error thrown).
Call(event, sent, result) == [event |-> event, sent |-> sent, result |-> result]
NoCall == Call([action |-> "none"], [command |-> "none"], [statusCode |-> 0])
Thrown == [errorType |-> "Error"]

\* ------------------------------------------------- state machine wiring
StartAt == "ScaleUpProcessor"

\* The wiring with the catch path ending without its scale-down task.
NextState_NoCompensation(s) ==
    CASE s = "ScaleUpProcessor"          -> "CheckScalingConfig"
      [] s = "CheckScalingConfig"        -> "IsScalingReady"
      [] s = "WaitBetweenChecks"         -> "CheckScalingConfig"
      [] s = "ScalingReady"              -> "ProcessVideo"
      [] s = "ProcessVideo"              -> "ScaleDownProcessor"
      [] s = "ScaleDownProcessor"        -> "ProcessingSucceeded"
      [] s = "HandleProcessingError"     -> "ProcessingFailed"
      [] s = "ScaleDownProcessorOnError" -> "ProcessingFailed"

\* The wiring with the success path ending without its scale-down task.
NextState_NoScaleDown(s) ==
    CASE s = "ScaleUpProcessor"          -> "CheckScalingConfig"
      [] s = "CheckScalingConfig"        -> "IsScalingReady"
      [] s = "WaitBetweenChecks"         -> "CheckScalingConfig"
      [] s = "ScalingReady"              -> "ProcessVideo"
      [] s = "ProcessVideo"              -> "ProcessingSucceeded"
      [] s = "ScaleDownProcessor"        -> "ProcessingSucceeded"
      [] s = "HandleProcessingError"     -> "ScaleDownProcessorOnError"
      [] s = "ScaleDownProcessorOnError" -> "ProcessingFailed"

\* The wiring with the success path's scale-down going on into the error path.
NextState_BothPaths(s) ==
    CASE s = "ScaleUpProcessor"          -> "CheckScalingConfig"
      [] s = "CheckScalingConfig"        -> "IsScalingReady"
      [] s = "WaitBetweenChecks"         -> "CheckScalingConfig"
      [] s = "ScalingReady"              -> "ProcessVideo"
      [] s = "ProcessVideo"              -> "ScaleDownProcessor"
      [] s = "ScaleDownProcessor"        -> "HandleProcessingError"
      [] s = "HandleProcessingError"     -> "ScaleDownProcessorOnError"
      [] s = "ScaleDownProcessorOnError" -> "ProcessingFailed"

\* The .next() wiring of the definition.
NextState(s) ==
    CASE s = "ScaleUpProcessor"          -> "CheckScalingConfig"
      [] s = "CheckScalingConfig"        -> "IsScalingReady"
      [] s = "WaitBetweenChecks"         -> "CheckScalingConfig"
      [] s = "ScalingReady"              -> "ProcessVideo"
      [] s = "ProcessVideo"              -> "ScaleDownProcessor"
      [] s = "ScaleDownProcessor"        -> "ProcessingSucceeded"
      [] s = "HandleProcessingError"     -> "ScaleDownProcessorOnError"
      [] s = "ScaleDownProcessorOnError" -> "ProcessingFailed"

\* The Choice going on to ScalingReady whatever the check returned.
IsScalingReadyChoice_AlwaysReady(isReady) == "ScalingReady"

\* The Choice going straight back to the check when it was not ready.
IsScalingReadyChoice_Spin(isReady) ==
    IF isReady = TRUE THEN "ScalingReady" ELSE "CheckScalingConfig"

\* The Choice state IsScalingReady.
IsScalingReadyChoice(isReady) ==
    IF isReady = TRUE THEN "ScalingReady" ELSE "WaitBetweenChecks"

\* Where a failed task goes: its addCatch target, or the end of the
\* execution (status FAILED) when the task has no catch.
CatchState(s) ==
    IF s = "ProcessVideo" THEN "HandleProcessingError" ELSE "ExecutionFailed"

ScalingTasks == {"ScaleUpProcessor", "CheckScalingConfig",
                 "ScaleDownProcessor", "ScaleDownProcessorOnError"}
Terminal == {"ProcessingSucceeded", "ProcessingFailed", "ExecutionFailed", "TimedOut"}

\* Positions of the processor handler at which the invocation is still running.
ProcRunning == {"get", "mark", "run", "writeCompleted", "writeFailed"}

ExecIds == 1..Len(execs)
Running(e) == execs[e].state \notin Terminal

NewExecution(videoId) ==
    [videoId      |-> videoId,
     state        |-> StartAt,
     isReady      |-> FALSE,
     proc         |-> "none",
     error        |-> "",
     results      |-> <<>>,
     scaleDowns   |-> 0,
     events       |-> {}]

Init ==
    /\ now = 0
    /\ videos = [v \in {} |-> 0]
    /\ requested = PutScaling(IdleMin, IdleMax)
    /\ applied = NoConfig
    /\ pending = [v \in VideoIds |-> [update |-> 0, start |-> 0]]
    /\ execs = <<>>
    /\ response = 0
    /\ calls = [last |-> NoCall, prev |-> NoCall]

\* Requests of triggerProcessing past the status check, and executions started.
InFlight == LET RECURSIVE Sum(_)
                Sum(S) == IF S = {} THEN 0
                          ELSE LET v == CHOOSE x \in S : TRUE
                               IN  pending[v].update + pending[v].start + Sum(S \ {v})
            IN  Sum(VideoIds)

Statuses == {"uploaded", "queued", "processing", "completed", "failed"}

\* The shape of the state.
TypeOK ==
    /\ now \in 0..MaxClock
    /\ DOMAIN videos \subseteq VideoIds
    /\ \A v \in DOMAIN videos :
          /\ {"id", "status"} \subseteq DOMAIN videos[v]
          /\ videos[v].id = v
          /\ videos[v].status \in Statuses
    /\ requested \in {PutScaling(a, b) : a, b \in Units}
    /\ applied \in {NoConfig} \cup {PutScaling(a, b) : a, b \in Units}
    /\ DOMAIN calls = {"last", "prev"}
    /\ \A v \in VideoIds : pending[v].update \in 0..MaxExecs /\ pending[v].start \in 0..MaxExecs
    /\ Len(execs) + InFlight <= MaxExecs
    /\ \A e \in ExecIds :
          /\ execs[e].videoId \in VideoIds
          /\ execs[e].state \in Terminal \cup ScalingTasks \cup
                 {"IsScalingReady", "WaitBetweenChecks", "ScalingReady",
                  "ProcessVideo", "HandleProcessingError"}
          /\ execs[e].isReady \in BOOLEAN
          /\ execs[e].proc \in ProcRunning \cup {"none", "returned", "threw", "killed"}
          /\ execs[e].scaleDowns \in 0..1
    /\ response \in {0, 201, 202, 404, 409, 500}

\* ----------------------------------------------------------------- clock
Tick ==
    /\ now < MaxClock
    /\ now' = now + 1
    /\ UNCHANGED <<videos, requested, applied, pending, execs, response, calls>>

\* ------------------------------------------------------------- video API
\* createVideo with title and sourceUrl given (POST /videos).
CreateVideo ==
    /\ DOMAIN videos # VideoIds
    /\ LET videoId == generateId
           video == [id |-> videoId, title |-> "title", sourceUrl |-> "url",
                     description |-> "", status |-> "uploaded",
                     createdAt |-> now, updatedAt |-> now]
       IN  videos' = (videoId :> video) @@ videos
    /\ response' = 201
    /\ UNCHANGED <<now, requested, applied, pending, execs, calls>>

\* The guard testing for the wrong status.
AlreadyProcessing_Queued(item) == item.status = "queued"

\* The guard of triggerProcessing on the item it read.
AlreadyProcessing(item) == item.status = "processing"

\* triggerProcessing going on when the item is absent.
triggerCheck_NoNotFound(table, videoId) ==
    IF videoId \notin DOMAIN table THEN 0
    ELSE IF AlreadyProcessing(table[videoId]) THEN 409
    ELSE 0

\* triggerProcessing(videoId) up to its first write: the status code it
\* returns on the item read by GetCommand, or 0 when it goes on.
triggerCheck(table, videoId) ==
    IF videoId \notin DOMAIN table THEN 404
    ELSE IF AlreadyProcessing(table[videoId]) THEN 409
    ELSE 0

\* triggerProcessing(videoId): GetCommand and the early returns.
TriggerProcessing(videoId) ==
    /\ IF triggerCheck(videos, videoId) # 0
       THEN /\ response' = triggerCheck(videos, videoId)
            /\ UNCHANGED pending
       ELSE /\ Len(execs) + InFlight < MaxExecs
            /\ pending' = [pending EXCEPT ![videoId].update = @ + 1]
            /\ UNCHANGED response
    /\ UNCHANGED <<now, videos, requested, applied, execs, calls>>

\* triggerProcessing: the UpdateCommand that sets status 'queued'.
TriggerUpdate(videoId) ==
    /\ pending[videoId].update > 0
    /\ videos' = [videos EXCEPT ![videoId] =
                     SetAttributes(@, [status |-> "queued", updatedAt |-> now])]
    /\ pending' = [pending EXCEPT ![videoId].update = @ - 1,
                                  ![videoId].start = @ + 1]
    /\ UNCHANGED <<now, requested, applied, execs, response, calls>>

\* triggerProcessing: StartExecutionCommand accepted, 202 returned.
TriggerStartExecution(videoId) ==
    /\ pending[videoId].start > 0
    /\ execs' = Append(execs, NewExecution(videoId))
    /\ pending' = [pending EXCEPT ![videoId].start = @ - 1]
    /\ response' = 202
    /\ UNCHANGED <<now, videos, requested, applied, calls>>

\* triggerProcessing: StartExecutionCommand rejected; the router's catch answers 500.
TriggerStartExecutionFails(videoId) ==
    /\ pending[videoId].start > 0
    /\ pending' = [pending EXCEPT ![videoId].start = @ - 1]
    /\ response' = 500
    /\ UNCHANGED <<now, videos, requested, applied, execs, calls>>

\* ----------------------------------------------------------- the platform
\* The platform applying the minimum only.
PlatformApply_MinOnly ==
    /\ applied # requested
    /\ applied' = [MinExecutionEnvironments |-> requested.MinExecutionEnvironments]
    /\ UNCHANGED <<now, videos, requested, pending, execs, response, calls>>

\* Lambda finishes provisioning: the applied configuration becomes the requested one.
PlatformApply ==
    /\ applied # requested
    /\ applied' = requested
    /\ UNCHANGED <<now, videos, requested, pending, execs, response, calls>>

\* --------------------------------- the scaling function, invoked directly
\* The record of the invocations after one more.
Logged(call) == [last |-> call, prev |-> calls.last]

\* handler, scale up or down, PutFunctionScalingConfig accepted. The handler
\* sends whatever numbers the event carries; for min > max the answer of
\* Lambda is not determined by this repository: it may accept (here) or
\* reject (ScalingPutRejected).
ScalingPut(minExecutionEnvironments, maxExecutionEnvironments) ==
    LET event == ScaleEvent(minExecutionEnvironments, maxExecutionEnvironments)
        cfg == PutScaling(event.minExecutionEnvironments, event.maxExecutionEnvironments)
        pool == PutFunctionScalingConfig(Pool, cfg)
    IN  /\ ~IsCheck(event)
        /\ requested' = pool.requested
        /\ applied' = pool.applied
        /\ calls' = Logged(Call(event,
                               [command |-> "PutFunctionScalingConfig", config |-> cfg],
                               [statusCode |-> 200,
                                minExecutionEnvironments |-> event.minExecutionEnvironments,
                                maxExecutionEnvironments |-> event.maxExecutionEnvironments]))
        /\ UNCHANGED <<now, videos, pending, execs, response>>

\* handler, scale up or down, PutFunctionScalingConfig rejected: lambda.send
\* throws and so does the handler.
ScalingPutRejected(minExecutionEnvironments, maxExecutionEnvironments) ==
    LET event == ScaleEvent(minExecutionEnvironments, maxExecutionEnvironments)
        cfg == PutScaling(event.minExecutionEnvironments, event.maxExecutionEnvironments)
    IN  /\ ~IsCheck(event)
        /\ calls' = Logged(Call(event,
                               [command |-> "PutFunctionScalingConfig", config |-> cfg],
                               Thrown))
        /\ UNCHANGED <<now, videos, requested, applied, pending, execs, response>>

\* handler, action === 'check'.
ScalingCheck ==
    LET event == CheckEvent
        payload == CheckScaling(applied)
    IN  /\ IsCheck(event)
        /\ calls' = Logged(Call(event,
                               [command |-> "GetFunctionScalingConfig"],
                               [statusCode |-> 200,
                                isReady    |-> payload.isReady,
                                appliedMin |-> payload.appliedMin,
                                appliedMax |-> payload.appliedMax]))
        /\ UNCHANGED <<now, videos, requested, applied, pending, execs, response>>

\* ------------------------------------------------------------ the workflow
\* The execution record on entering state s; entering ProcessVideo invokes
\* the processor function.
Enter(x, s) ==
    IF s = "ProcessVideo"
    THEN [x EXCEPT !.state = s, !.proc = "get", !.events = @ \cup {"invoke"}]
    ELSE [x EXCEPT !.state = s]

\* Every scaling task carrying the scale-up payload.
Payload_AlwaysHigh(s) == PutScaling(HighMin, HighMax)

\* The scale-down tasks lowering the minimum only.
Payload_MinOnlyDown(s) ==
    IF s = "ScaleUpProcessor" THEN PutScaling(HighMin, HighMax)
                              ELSE PutScaling(IdleMin, HighMax)

\* The payload of a scaling task.
Payload(s) ==
    IF s = "ScaleUpProcessor" THEN PutScaling(HighMin, HighMax)
                              ELSE PutScaling(IdleMin, IdleMax)

\* A LambdaInvoke of the scaling function with a scale payload succeeds.
ScaleTask(e, s) ==
    /\ execs[e].state = s
    /\ requested' = Payload(s)
    /\ execs' = [execs EXCEPT ![e] =
         LET x == IF Payload(s) = PutScaling(IdleMin, IdleMax)
                  THEN [@ EXCEPT !.scaleDowns = @ + 1, !.events = @ \cup {"scaleDown"}]
                  ELSE [@ EXCEPT !.events = @ \cup {"scaleUp"}]
         IN  Enter(x, NextState(s))]
    /\ UNCHANGED <<now, videos, applied, pending, response, calls>>

ScaleUpProcessor(e) == ScaleTask(e, "ScaleUpProcessor")
\* The success path's scale-down task going on without its request.
ScaleDownProcessor_NoRequest(e) ==
    /\ execs[e].state = "ScaleDownProcessor"
    /\ execs' = [execs EXCEPT ![e] = Enter(@, NextState("ScaleDownProcessor"))]
    /\ UNCHANGED <<now, videos, requested, applied, pending, response, calls>>

ScaleDownProcessor(e) == ScaleTask(e, "ScaleDownProcessor")
ScaleDownProcessorOnError(e) == ScaleTask(e, "ScaleDownProcessorOnError")

CheckScalingConfig(e) ==
    /\ execs[e].state = "CheckScalingConfig"
    /\ LET payload == CheckScaling(applied)
       IN  execs' = [execs EXCEPT ![e] =
             Enter([@ EXCEPT !.isReady = payload.isReady,
                             !.events = IF payload.isReady
                                        THEN @ \cup {"ready"} ELSE @],
                   NextState("CheckScalingConfig"))]
    /\ UNCHANGED <<now, videos, requested, applied, pending, response, calls>>

IsScalingReady(e) ==
    /\ execs[e].state = "IsScalingReady"
    /\ execs' = [execs EXCEPT ![e] = Enter(@, IsScalingReadyChoice(@.isReady))]
    /\ UNCHANGED <<now, videos, requested, applied, pending, response, calls>>

\* The Wait and Pass states.
PassState(e, s) ==
    /\ execs[e].state = s
    /\ execs' = [execs EXCEPT ![e] = Enter(@, NextState(s))]
    /\ UNCHANGED <<now, videos, requested, applied, pending, response, calls>>

WaitBetweenChecks(e) == PassState(e, "WaitBetweenChecks")
ScalingReady(e) == PassState(e, "ScalingReady")
HandleProcessingError(e) == PassState(e, "HandleProcessingError")

\* The ProcessVideo task ends when the processor's invocation has ended.
ProcessVideo(e) ==
    /\ execs[e].state = "ProcessVideo"
    /\ execs[e].proc \in {"returned", "threw", "killed"}
    /\ execs' = [execs EXCEPT ![e] =
         Enter([@ EXCEPT !.events = @ \cup {"processed"}],
               IF @.proc = "returned" THEN NextState("ProcessVideo")
                                      ELSE CatchState("ProcessVideo"))]
    /\ UNCHANGED <<now, videos, requested, applied, pending, response, calls>>

\* A failing scaling task that also marks the Job failed.
TaskFailed_MarksJobFailed(e) ==
    /\ execs[e].state \in ScalingTasks
    /\ execs' = [execs EXCEPT ![e] = Enter(@, CatchState(@.state))]
    /\ videos' = updateVideoStatus(videos, execs[e].videoId, "failed",
                                   [error |-> "scaling failed"])
    /\ UNCHANGED <<now, requested, applied, pending, response, calls>>

\* The scaling function's invocation fails (its SDK call rejects).
TaskFailed(e) ==
    /\ execs[e].state \in ScalingTasks
    /\ execs' = [execs EXCEPT ![e] = Enter(@, CatchState(@.state))]
    /\ UNCHANGED <<now, videos, requested, applied, pending, response, calls>>

\* A timeout that does not cover the readiness polling loop.
ExecutionTimeout_NotWhilePolling(e) ==
    /\ Running(e)
    /\ execs[e].state \notin {"CheckScalingConfig", "IsScalingReady", "WaitBetweenChecks"}
    /\ execs' = [execs EXCEPT ![e].state = "TimedOut"]
    /\ UNCHANGED <<now, videos, requested, applied, pending, response, calls>>

\* The state machine's timeout (10 minutes) expires: the execution is stopped.
\* A processor invocation in progress is not.
ExecutionTimeout(e) ==
    /\ Running(e)
    /\ execs' = [execs EXCEPT ![e].state = "TimedOut"]
    /\ UNCHANGED <<now, videos, requested, applied, pending, response, calls>>

\* ----------------------------------------------------------- the processor
\* processVideo(video): the stages run in order, each awaited before the next;
\* a stage that throws ends the run with its error. failing: the stages that
\* would throw in this run.
RECURSIVE RunStages(_, _, _)
RunStages(i, failing, done) ==
    IF i > Len(Stages) THEN [ok |-> TRUE, ran |-> done, error |-> ""]
    ELSE IF Stages[i] \in failing
         THEN [ok |-> FALSE, ran |-> Append(done, Stages[i]), error |-> Stages[i]]
         ELSE RunStages(i + 1, failing, Append(done, Stages[i]))

\* A run that goes through all the stages and reports a failure at the end.
processVideo_RunsAll(failing) ==
    IF \A i \in 1..Len(Stages) : Stages[i] \notin failing
    THEN [ok |-> TRUE, ran |-> Stages, error |-> ""]
    ELSE [ok |-> FALSE, ran |-> Stages,
          error |-> Stages[CHOOSE i \in 1..Len(Stages) : Stages[i] \in failing]]

processVideo(failing) == RunStages(1, failing, <<>>)

\* The sets of failing stages the runs are drawn from: none, one stage, two stages.
FailingInputs == {{}, {"transcoding"}, {"analysis", "subtitles"}}

\* The attributes the handler writes with status 'completed'.
CompletedFields(processingResults) ==
    SetAttributes([k \in processingResults \cup {"processingTimeMs"} |-> "done"],
                  [completedAt |-> now, updatedAt |-> now])

\* The catch branch writing a fixed text instead of error.message.
FailedFields_Generic(error) ==
    [error |-> "Processing failed", failedAt |-> now, updatedAt |-> now]

\* The catch branch also writing the result of the first stage.
FailedFields_WithPartial(error) ==
    [error |-> error, failedAt |-> now, updatedAt |-> now, thumbnail |-> "done"]

\* The attributes the handler writes with status 'failed'.
FailedFields(error) == [error |-> error, failedAt |-> now, updatedAt |-> now]

\* handler: GetItemCommand; a missing item throws before the try block.
ProcGet(e) ==
    /\ execs[e].proc = "get"
    /\ execs' = [execs EXCEPT ![e] =
         IF @.videoId \in DOMAIN videos
         THEN [@ EXCEPT !.proc = "mark"]
         ELSE [@ EXCEPT !.proc = "threw", !.error = "not found"]]
    /\ UNCHANGED <<now, videos, requested, applied, pending, response, calls>>

\* handler: updateVideoStatus(videoId, 'processing', {startedAt}).
ProcMarkProcessing(e) ==
    /\ execs[e].proc = "mark"
    /\ videos' = updateVideoStatus(videos, execs[e].videoId, "processing",
                                   [startedAt |-> now])
    /\ execs' = [execs EXCEPT ![e].proc = "run"]
    /\ UNCHANGED <<now, requested, applied, pending, response, calls>>

\* handler: await processVideo(video), into the try or the catch branch.
ProcRun(e) ==
    /\ execs[e].proc = "run"
    /\ \E failing \in FailingInputs :
         LET r == processVideo(failing)
         IN  execs' = [execs EXCEPT ![e] =
               IF r.ok
               THEN [@ EXCEPT !.proc = "writeCompleted", !.results = r.ran]
               ELSE [@ EXCEPT !.proc = "writeFailed", !.results = r.ran,
                              !.error = r.error]]
    /\ UNCHANGED <<now, videos, requested, applied, pending, response, calls>>

\* handler: updateVideoStatus(videoId, 'completed', ...) and return.
ProcWriteCompleted(e) ==
    /\ execs[e].proc = "writeCompleted"
    /\ videos' = updateVideoStatus(videos, execs[e].videoId, "completed",
           CompletedFields({execs[e].results[i] : i \in 1..Len(execs[e].results)}))
    /\ execs' = [execs EXCEPT ![e].proc = "returned", ![e].results = <<>>]
    /\ UNCHANGED <<now, requested, applied, pending, response, calls>>

\* handler, catch: updateVideoStatus(videoId, 'failed', ...) and rethrow.
ProcWriteFailed(e) ==
    /\ execs[e].proc = "writeFailed"
    /\ videos' = updateVideoStatus(videos, execs[e].videoId, "failed",
                                   FailedFields(execs[e].error))
    /\ execs' = [execs EXCEPT ![e].proc = "threw", ![e].results = <<>>]
    /\ UNCHANGED <<now, requested, applied, pending, response, calls>>

\* The invocation is ended by the function's timeout (5 minutes) or a crash.
ProcKilled(e) ==
    /\ execs[e].proc \in ProcRunning
    /\ execs' = [execs EXCEPT ![e].proc = "killed"]
    /\ UNCHANGED <<now, videos, requested, applied, pending, response, calls>>

\* ------------------------------------------------------------------ system
Next ==
    \/ Tick
    \/ CreateVideo
    \/ PlatformApply
    \/ \E v \in VideoIds : TriggerProcessing(v)
    \/ \E v \in VideoIds : TriggerUpdate(v)
    \/ \E v \in VideoIds : TriggerStartExecution(v)
    \/ \E v \in VideoIds : TriggerStartExecutionFails(v)
    \/ \E e \in ExecIds : ScaleUpProcessor(e)
    \/ \E e \in ExecIds : CheckScalingConfig(e)
    \/ \E e \in ExecIds : IsScalingReady(e)
    \/ \E e \in ExecIds : WaitBetweenChecks(e)
    \/ \E e \in ExecIds : ScalingReady(e)
    \/ \E e \in ExecIds : ProcessVideo(e)
    \/ \E e \in ExecIds : HandleProcessingError(e)
    \/ \E e \in ExecIds : ScaleDownProcessorOnError(e)
    \/ \E e \in ExecIds : ScaleDownProcessor(e)
    \/ \E e \in ExecIds : TaskFailed(e)
    \/ \E e \in ExecIds : ExecutionTimeout(e)
    \/ \E e \in ExecIds : ProcGet(e)
    \/ \E e \in ExecIds : ProcMarkProcessing(e)
    \/ \E e \in ExecIds : ProcRun(e)
    \/ \E e \in ExecIds : ProcWriteCompleted(e)
    \/ \E e \in ExecIds : ProcWriteFailed(e)
    \/ \E e \in ExecIds : ProcKilled(e)

Spec == Init /\ [][Next]_vars

\* ------------------------------------------- one execution, no infrastructure fault
\* The scenarios of one Job triggered once: no second trigger is admitted, the
\* scaling function's invocations succeed, neither the workflow's nor the
\* function's timeout expires. The JobExecutor may still fail.
TriggerOnce(videoId) ==
    /\ Len(execs) + InFlight = 0
    /\ TriggerProcessing(videoId)

WorkflowStep(e) ==
    \/ ScaleUpProcessor(e)
    \/ CheckScalingConfig(e)
    \/ IsScalingReady(e)
    \/ WaitBetweenChecks(e)
    \/ ScalingReady(e)
    \/ ProcessVideo(e)
    \/ HandleProcessingError(e)
    \/ ScaleDownProcessorOnError(e)
    \/ ScaleDownProcessor(e)

ProcessorStep(e) ==
    \/ ProcGet(e)
    \/ ProcMarkProcessing(e)
    \/ ProcRun(e)
    \/ ProcWriteCompleted(e)
    \/ ProcWriteFailed(e)

ScenarioNext ==
    \/ Tick
    \/ CreateVideo
    \/ PlatformApply
    \/ \E v \in VideoIds : TriggerOnce(v)
    \/ \E v \in VideoIds : TriggerUpdate(v)
    \/ \E v \in VideoIds : TriggerStartExecution(v)
    \/ \E e \in ExecIds : WorkflowStep(e)
    \/ \E e \in ExecIds : ProcessorStep(e)

\* Step Functions runs every enabled state, Lambda runs every invocation to its
\* end, and the platform finishes provisioning what was requested.
ScenarioSpec ==
    /\ Init
    /\ [][ScenarioNext]_vars
    /\ WF_vars(\E e \in ExecIds : WorkflowStep(e))
    /\ WF_vars(\E e \in ExecIds : ProcessorStep(e))
    /\ WF_vars(PlatformApply)

\* ------------------------------------------- one execution, with every fault
\* One Job triggered once; the scaling function's invocations may fail, the
\* processor may be killed, the platform may never apply what was requested.
DeadlineNext ==
    \/ Tick
    \/ CreateVideo
    \/ PlatformApply
    \/ \E v \in VideoIds : TriggerOnce(v)
    \/ \E v \in VideoIds : TriggerUpdate(v)
    \/ \E v \in VideoIds : TriggerStartExecution(v)
    \/ \E e \in ExecIds : WorkflowStep(e)
    \/ \E e \in ExecIds : ProcessorStep(e)
    \/ \E e \in ExecIds : TaskFailed(e)
    \/ \E e \in ExecIds : ProcKilled(e)
    \/ \E e \in ExecIds : ExecutionTimeout(e)

\* Step Functions runs every enabled state and stops an execution that is
\* still running when the state machine's timeout has elapsed; Lambda runs
\* every invocation to its end. Nothing obliges the platform to apply.
DeadlineSpec ==
    /\ Init
    /\ [][DeadlineNext]_vars
    /\ WF_vars(\E e \in ExecIds : WorkflowStep(e))
    /\ WF_vars(\E e \in ExecIds : ProcessorStep(e))
    /\ WF_vars(\E e \in ExecIds : ExecutionTimeout(e))

\* ------------------------------------- the scaling function on its own
\* The scaling function invoked directly with any event, and the platform.
ScalingNext ==
    \/ PlatformApply
    \/ ScalingCheck
    \/ \E a, b \in Units : ScalingPut(a, b)
    \/ \E a, b \in Units : ScalingPutRejected(a, b)

\* The platform finishes provisioning what was requested.
ScalingSpec ==
    /\ Init
    /\ [][ScalingNext]_vars
    /\ WF_vars(PlatformApply)

\* ------------------------------------------------------------------ claims
Failed(e) == execs[e].state \in {"ProcessingFailed", "ExecutionFailed", "TimedOut"}
ScaledUp(e) == "scaleUp" \in execs[e].events
StageErrors == {Stages[i] : i \in 1..Len(Stages)}
\* The processor of execution e has written status 'failed'.
WroteFailed(e) == execs[e].proc = "threw" /\ execs[e].error \in StageErrors

C2_FailureAfterScaleUpScalesDown ==
    \A e \in ExecIds : Failed(e) /\ ScaledUp(e) => execs[e].scaleDowns >= 1

\* C3, as claimed: no two running executions are for the same Job.
C3_OneActiveExecutionPerJob ==
    \A e1, e2 \in ExecIds :
        (e1 # e2 /\ execs[e1].videoId = execs[e2].videoId)
            => ~(Running(e1) /\ Running(e2))

AllowedTransitions ==
    {<<"uploaded", "queued">>, <<"queued", "processing">>,
     <<"processing", "completed">>, <<"processing", "failed">>}

\* C4, as claimed: every change of a Job's status is one of
\* uploaded -> queued -> processing -> {completed | failed}.
C4_StatusPath ==
    [][\A v \in DOMAIN videos :
          videos'[v].status # videos[v].status
              => <<videos[v].status, videos'[v].status>> \in AllowedTransitions]_vars

\* C5, as claimed: once a Job's status is 'completed' or 'failed' it never changes.
C5_TerminalStatusIsFinal ==
    [][\A v \in DOMAIN videos :
          videos[v].status \in {"completed", "failed"}
              => videos'[v].status = videos[v].status]_vars

\* C6: a triggerProcessing request served while the Job's status is 'processing'
\* answers 409, starts no execution and leaves the Job record unchanged.
C6_ConflictWhileProcessing ==
    [][\A v \in DOMAIN videos :
          (videos[v].status = "processing" /\ TriggerProcessing(v))
              => /\ response' = 409
                 /\ UNCHANGED <<videos, execs, pending>>]_vars

\* C6 witness: a request was answered 409 while an execution's processor holds
\* the Job in 'processing'.
C6_Witness ==
    /\ response = 409
    /\ \E e \in ExecIds : /\ execs[e].proc = "run"
                          /\ videos[execs[e].videoId].status = "processing"

\* C7, as claimed: an execution whose deadline expired before any readiness
\* check returned ready has issued the compensating scale-down to {0,0}.
C7_ReadinessTimeoutCompensates ==
    \A e \in ExecIds :
        (execs[e].state = "TimedOut" /\ ScaledUp(e) /\ "ready" \notin execs[e].events)
            => execs[e].scaleDowns >= 1

\* The executor of the one execution has failed.
ExecutorFailed == Len(execs) = 1 /\ execs[1].error # ""

\* The happy end of the one execution.
HappyEnd ==
    /\ Len(execs) = 1
    /\ execs[1].state = "ProcessingSucceeded"
    /\ {"scaleUp", "ready", "invoke", "processed", "scaleDown"} \subseteq execs[1].events
    /\ execs[1].scaleDowns = 1
    /\ requested = PutScaling(IdleMin, IdleMax)
    /\ videos[execs[1].videoId].status = "completed"
    /\ StageErrors \subseteq DOMAIN videos[execs[1].videoId]
    /\ "completedAt" \in DOMAIN videos[execs[1].videoId]

\* C8: with one Job triggered once and no infrastructure fault, an execution
\* whose JobExecutor does not fail reaches ProcessingSucceeded after ready,
\* execute, result attached and scale-down to {0,0}, and the Job stays 'completed'.
C8_HappyPath == (Len(execs) = 1) ~> (ExecutorFailed \/ []HappyEnd)

\* C8 witness: the happy end is reached.
C8_Witness == HappyEnd

\* The end of the one execution after its JobExecutor threw.
FailedEnd ==
    /\ Len(execs) = 1
    /\ execs[1].state = "ProcessingFailed"
    /\ execs[1].scaleDowns = 1
    /\ execs[1].error \in StageErrors
    /\ videos[execs[1].videoId].status = "failed"
    /\ videos[execs[1].videoId].error = execs[1].error

\* C9: with one Job triggered once and no infrastructure fault, when the
\* JobExecutor throws, the Job becomes 'failed' with the executor's error and the
\* execution issues exactly one scale-down to {0,0}.
C9_ExecutorThrows ==
    (Len(execs) = 1 /\ execs[1].proc = "writeFailed") ~> []FailedEnd

\* C9 witness: the failed end is reached.
C9_Witness == FailedEnd

\* C10: the processor is invoked only after the execution's scale-up request and
\* a readiness check of its own that returned ready; a scale-down is issued only
\* after the processor's invocation has ended.
C10_Sequential ==
    \A e \in ExecIds :
        /\ execs[e].proc # "none" => ScaledUp(e) /\ "ready" \in execs[e].events
        /\ "ready" \in execs[e].events => ScaledUp(e)
        /\ execs[e].scaleDowns > 0 => execs[e].proc \in {"returned", "threw", "killed"}

\* C10 witness: an execution scaled down after its processor returned.
C10_Witness ==
    \E e \in ExecIds : execs[e].scaleDowns = 1 /\ execs[e].proc = "returned"

C12_FailedExecutionFailedJob ==
    \A e \in ExecIds :
        Failed(e) => /\ videos[execs[e].videoId].status = "failed"
                     /\ {"error", "failedAt"} \subseteq DOMAIN videos[execs[e].videoId]

\* C13, as claimed: at the step by which an execution reaches ProcessingSucceeded
\* its Job has status 'completed' with the result payload and completedAt.
C13_SucceededMeansCompleted ==
    [][\A e \in ExecIds :
          (execs[e].state # "ProcessingSucceeded"
              /\ execs'[e].state = "ProcessingSucceeded")
          => /\ videos'[execs[e].videoId].status = "completed"
             /\ StageErrors \cup {"completedAt"}
                    \subseteq DOMAIN videos'[execs[e].videoId]]_vars

\* C14, as claimed: when the scale-down task of an execution fails, the execution
\* ends with the verdict it had before: ProcessingSucceeded on the success path,
\* ProcessingFailed on the compensating path.
C14_ScaleDownFailureKeepsVerdict ==
    [][\A e \in ExecIds :
          /\ (execs[e].state = "ScaleDownProcessor" /\ TaskFailed(e))
                => execs'[e].state = "ProcessingSucceeded"
          /\ (execs[e].state = "ScaleDownProcessorOnError" /\ TaskFailed(e))
                => execs'[e].state = "ProcessingFailed"]_vars

ScaleDownTasks == {"ScaleDownProcessor", "ScaleDownProcessorOnError"}

\* C15: a failing scale-down task (success path or compensating) leaves the
\* videos table as it was: the Job's status and error are unchanged.
C15_ScaleDownFailureKeepsJob ==
    [][\A e \in ExecIds :
          (execs[e].state \in ScaleDownTasks /\ TaskFailed(e))
              => videos' = videos]_vars

\* C15 witness: an execution ended by a failing scale-down after its processor
\* threw, the Job still 'failed' with the processor's error.
C15_Witness ==
    \E e \in ExecIds : /\ execs[e].state = "ExecutionFailed"
                       /\ "processed" \in execs[e].events
                       /\ WroteFailed(e)
                       /\ videos[execs[e].videoId].status = "failed"
                       /\ videos[execs[e].videoId].error = execs[e].error

\* C16: an execution enters CheckScalingConfig only from ScaleUpProcessor (the
\* first check) or from WaitBetweenChecks (every later one), and a check that
\* returned not ready goes on to WaitBetweenChecks.
C16_WaitBetweenChecks ==
    [][\A e \in ExecIds :
          /\ (execs[e].state # "CheckScalingConfig"
                 /\ execs'[e].state = "CheckScalingConfig")
                => execs[e].state \in {"ScaleUpProcessor", "WaitBetweenChecks"}
          /\ (execs[e].state = "IsScalingReady" /\ ~execs[e].isReady
                 /\ IsScalingReady(e))
                => execs'[e].state = "WaitBetweenChecks"]_vars

\* C16 witness: an execution waits after a check that returned not ready.
C16_Witness ==
    \E e \in ExecIds : /\ execs[e].state = "WaitBetweenChecks"
                       /\ ~execs[e].isReady
                       /\ ScaledUp(e)

\* The states of an execution between its scale-up request and readiness.
ScalingUpStates == {"ScaleUpProcessor", "CheckScalingConfig",
                    "IsScalingReady", "WaitBetweenChecks"}

\* C17: every execution that is scaling up or polling for readiness eventually
\* is in a terminal state, whether or not the platform ever applies the
\* requested configuration.
C17_PollingTerminates ==
    \A e \in 1..MaxExecs :
        (e \in ExecIds /\ execs[e].state \in ScalingUpStates)
            ~> (e \in ExecIds /\ execs[e].state \in Terminal)

\* C17 witness: an execution was stopped by the timeout while polling, no check
\* having returned ready and the applied configuration still not ready.
C17_Witness ==
    \E e \in ExecIds : /\ execs[e].state = "TimedOut"
                       /\ ScaledUp(e)
                       /\ "ready" \notin execs[e].events
                       /\ ~CheckScaling(applied).isReady

\* getAppliedTarget: what a check reports as applied.
getAppliedTarget(appliedCfg) ==
    PutScaling(CheckScaling(appliedCfg).appliedMin, CheckScaling(appliedCfg).appliedMax)

\* C18, as claimed: an invocation of the scaling function with min > max throws
\* without having sent any command to Lambda, and leaves the requested and the
\* applied configuration unchanged.
C18_InvalidTargetRejected ==
    [][\A a, b \in Units :
          (a > b /\ (ScalingPut(a, b) \/ ScalingPutRejected(a, b)))
              => /\ calls'.last.sent.command = "none"
                 /\ calls'.last.result = Thrown
                 /\ requested' = requested
                 /\ applied' = applied]_vars

\* C19: for the configuration as it is in any reachable state and every target
\* with min <= max, putting the target twice leaves the requested and the
\* applied configuration as putting it once does.
C19_RequestIdempotent ==
    \A a, b \in Units :
        a <= b => LET once  == PutFunctionScalingConfig(Pool, PutScaling(a, b))
                      twice == PutFunctionScalingConfig(once, PutScaling(a, b))
                  IN  twice = once

\* The last two invocations were accepted puts of the same target (a, b).
PutTwice(a, b) ==
    /\ calls.last.event = ScaleEvent(a, b)
    /\ calls.prev.event = ScaleEvent(a, b)
    /\ calls.last.result # Thrown
    /\ calls.prev.result # Thrown

\* C19 witness: a target with 0 < min < max was put twice in a row, is the
\* requested configuration and has been applied.
C19_Witness ==
    \E a, b \in Units : /\ 0 < a /\ a < b
                        /\ PutTwice(a, b)
                        /\ requested = PutScaling(a, b)
                        /\ applied = requested

AppliedShapes ==
    {NoConfig}
        \cup {[MinExecutionEnvironments |-> a] : a \in Units}
        \cup {[MaxExecutionEnvironments |-> b] : b \in Units}
        \cup {PutScaling(a, b) : a, b \in Units}

\* The number a configuration holds under key, a missing one read as 0.
Held(cfg, key) == IF key \in DOMAIN cfg THEN cfg[key] ELSE 0

\* The check's payload is right for the applied configuration cfg.
ReadinessOf(payload, cfg) ==
    /\ payload.isReady <=> (Held(cfg, "MinExecutionEnvironments") > 0
                              /\ Held(cfg, "MaxExecutionEnvironments") > 0)
    /\ payload.appliedMin = Held(cfg, "MinExecutionEnvironments")
    /\ payload.appliedMax = Held(cfg, "MaxExecutionEnvironments")

\* C21: a check returns (it does not throw) a payload with isReady true exactly
\* when the applied min and max are both positive, a missing configuration or
\* number read as 0; this holds of the applied configuration at the check and
\* of every shape a response can have.
C21_ReadyIffBothPositive ==
    [][ScalingCheck =>
          /\ calls'.last.result # Thrown
          /\ calls'.last.result.statusCode = 200
          /\ ReadinessOf(calls'.last.result, applied)
          /\ \A cfg \in AppliedShapes : ReadinessOf(CheckScaling(cfg), cfg)]_vars

\* C21 witness: a check made while nothing was ever applied returned not ready
\* with applied {0,0}.
C21_Witness ==
    /\ applied = NoConfig
    /\ IsCheck(calls.last.event)
    /\ calls.last.result.isReady = FALSE
    /\ calls.last.result.appliedMin = 0
    /\ calls.last.result.appliedMax = 0

\* C22, as claimed: a check returns ready only when the applied configuration
\* is the requested one.
C22_ReadyOnlyWhenAppliedIsRequested ==
    [][(ScalingCheck /\ calls'.last.result.isReady) => applied = requested]_vars

\* C23: every request a scaling task of the workflow makes is for the high
\* target (ScaleUpProcessor) or for {0,0} (the two scale-down tasks), and has
\* min <= max.
C23_TwoShapes ==
    [][\A e \in ExecIds :
          /\ ScaleUpProcessor(e) => requested' = PutScaling(HighMin, HighMax)
          /\ (ScaleDownProcessor(e) \/ ScaleDownProcessorOnError(e))
                => requested' = PutScaling(IdleMin, IdleMax)
          /\ (ScaleUpProcessor(e) \/ ScaleDownProcessor(e)
                 \/ ScaleDownProcessorOnError(e))
                => requested'.MinExecutionEnvironments
                       <= requested'.MaxExecutionEnvironments]_vars

\* C23 witness: both shapes have been requested: one execution has scaled
\* down, and the high target of another is the requested one.
C23_Witness ==
    \E e1, e2 \in ExecIds : /\ execs[e1].scaleDowns = 1
                            /\ ScaledUp(e2)
                            /\ execs[e2].scaleDowns = 0
                            /\ requested = PutScaling(HighMin, HighMax)

\* C24, as claimed: when executions were started and none is running, the
\* requested configuration is {0,0}.
C24_IdleWhenNoExecution ==
    (Len(execs) > 0 /\ \A e \in ExecIds : ~Running(e))
        => requested = PutScaling(IdleMin, IdleMax)

\* C25, as claimed: once an execution has ended unsuccessfully, no step of its
\* processor changes the Job record.
C25_LateResultDiscarded ==
    [][\A e \in ExecIds :
          (Failed(e) /\ ProcessorStep(e)) => videos' = videos]_vars

\* C26: a triggerProcessing request for an id that has no item answers 404,
\* creates or changes no item and starts no execution.
C26_TriggerNotFound ==
    [][\A v \in VideoIds :
          (v \notin DOMAIN videos /\ TriggerProcessing(v))
              => /\ response' = 404
                 /\ UNCHANGED <<videos, execs, pending>>]_vars

\* C26 witness: a request was answered 404 while an id has no item, no request
\* is in flight and no execution was started.
C26_Witness ==
    /\ response = 404
    /\ DOMAIN videos # VideoIds
    /\ InFlight = 0
    /\ execs = <<>>

\* C27, as claimed: every step that changes an item leaves its updatedAt at the
\* time of the step.
C27_UpdatedAtOnEveryUpdate ==
    [][\A v \in DOMAIN videos :
          videos'[v] # videos[v] => videos'[v].updatedAt = now]_vars

\* Every attribute of item v outside named is the same after the step.
Kept(v, named) ==
    \A k \in DOMAIN videos[v] \ named :
        k \in DOMAIN videos'[v] /\ videos'[v][k] = videos[v][k]

\* C28: each update of an item (to 'queued' by triggerProcessing, to
\* 'processing', 'completed' or 'failed' by the processor) leaves every
\* attribute it does not name as it was.
C28_PartialMerge ==
    [][/\ \A v \in DOMAIN videos :
            TriggerUpdate(v) => Kept(v, {"status", "updatedAt"})
       /\ \A e \in ExecIds :
            /\ ProcMarkProcessing(e)
                  => Kept(execs[e].videoId, {"status", "startedAt"})
            /\ ProcWriteCompleted(e)
                  => Kept(execs[e].videoId,
                          StageErrors \cup {"status", "processingTimeMs",
                                            "completedAt", "updatedAt"})
            /\ ProcWriteFailed(e)
                  => Kept(execs[e].videoId,
                          {"status", "error", "failedAt", "updatedAt"})]_vars

\* C28 witness: a 'completed' item still has what createVideo put and what the
\* update to 'processing' wrote.
C28_Witness ==
    \E v \in DOMAIN videos :
        /\ videos[v].status = "completed"
        /\ {"id", "title", "sourceUrl", "createdAt", "startedAt", "completedAt"}
               \subseteq DOMAIN videos[v]
        /\ videos[v].title = "title"
        /\ videos[v].createdAt < videos[v].completedAt

\* The states of an execution from its scale-up request to the end of its
\* processor's invocation.
NeedsCapacity == ScalingUpStates \cup {"ScalingReady", "ProcessVideo"}

\* C29: the scale-down request of one execution is made, and sets the requested
\* configuration to {0,0}, also while an execution for another Job is polling
\* or processing; that other execution is left as it is.
C29_NoCrossJobExclusion ==
    [][\A e1, e2 \in ExecIds :
          (/\ execs[e1].videoId # execs[e2].videoId
           /\ execs[e2].state \in NeedsCapacity
           /\ (ScaleDownProcessor(e1) \/ ScaleDownProcessorOnError(e1)))
              => /\ requested' = PutScaling(IdleMin, IdleMax)
                 /\ execs'[e2] = execs[e2]]_vars

\* C29 witness: {0,0} is requested by the scale-down of one execution while the
\* processor of an execution for another Job is running.
C29_Witness ==
    \E e1, e2 \in ExecIds :
        /\ execs[e1].videoId # execs[e2].videoId
        /\ execs[e1].scaleDowns = 1
        /\ requested = PutScaling(IdleMin, IdleMax)
        /\ execs[e2].state = "ProcessVideo"
        /\ execs[e2].proc \in ProcRunning

\* s is an initial part of t.
IsPrefix(s, t) == Len(s) <= Len(t) /\ \A i \in 1..Len(s) : s[i] = t[i]

\* C30: the stages a run of processVideo went through are an initial part of
\* thumbnail, transcoding, analysis, subtitles, each once; a run that succeeded
\* went through all four; a run that failed stopped at the stage that failed
\* and the invocation fails with that stage's error.
C30_StagesInOrderNoRetry ==
    \A e \in ExecIds :
        /\ IsPrefix(execs[e].results, Stages)
        /\ execs[e].proc = "writeCompleted" => execs[e].results = Stages
        /\ execs[e].proc = "writeFailed"
              => /\ execs[e].results # <<>>
                 /\ execs[e].error = execs[e].results[Len(execs[e].results)]
        /\ WroteFailed(e) => videos[execs[e].videoId].error = execs[e].error

\* C30 witness: a run failed at transcoding, its second stage, and went no
\* further.
C30_Witness ==
    \E e \in ExecIds : /\ execs[e].proc = "writeFailed"
                       /\ execs[e].results = <<"thumbnail", "transcoding">>
                       /\ execs[e].error = "transcoding"

\* The attributes a successful run writes.
ResultFields == StageErrors \cup {"processingTimeMs", "completedAt"}

\* C31: the write of a run that failed adds none of the result attributes to
\* the item and changes none that is there: it writes status 'failed', error,
\* failedAt and updatedAt only.
C31_NoPartialResults ==
    [][\A e \in ExecIds :
          ProcWriteFailed(e)
              => LET v == execs[e].videoId
                 IN  /\ DOMAIN videos'[v] \cap ResultFields
                            = DOMAIN videos[v] \cap ResultFields
                     /\ DOMAIN videos'[v] \ DOMAIN videos[v]
                            \subseteq {"error", "failedAt", "updatedAt"}
                     /\ videos'[v].status = "failed"
                     /\ Kept(v, {"status", "error", "failedAt", "updatedAt"})]_vars

\* C31 witness: a run failed at analysis, after two stages had succeeded, and
\* the 'failed' item has no result attribute.
C31_Witness ==
    \E e \in ExecIds :
        /\ WroteFailed(e)
        /\ execs[e].error = "analysis"
        /\ videos[execs[e].videoId].status = "failed"
        /\ DOMAIN videos[execs[e].videoId] \cap ResultFields = {}

\* C32: an execution makes at most one scale-down request: never both
\* ScaleDownProcessor and ScaleDownProcessorOnError.
C32_ScaleDownAtMostOnce ==
    [][\A e \in ExecIds :
          /\ execs'[e].scaleDowns <= 1
          /\ (ScaleDownProcessor(e) \/ ScaleDownProcessorOnError(e))
                => execs[e].scaleDowns = 0]_vars

\* C32 witness: an execution whose processor was killed has ended after the
\* one scale-down of the compensating path.
C32_Witness ==
    \E e \in ExecIds : /\ execs[e].proc = "killed"
                       /\ execs[e].state = "ProcessingFailed"
                       /\ execs[e].scaleDowns = 1

\* C33: after every accepted request the requested configuration is the whole
\* configuration of that request, whatever was requested before; a rejected
\* request and a check leave it as it was.
C33_LastWriteWins ==
    [][/\ \A a, b \in Units :
            /\ ScalingPut(a, b) => requested' = PutScaling(a, b)
            /\ ScalingPutRejected(a, b) => requested' = requested
       /\ ScalingCheck => requested' = requested]_vars

\* C33 witness: two accepted requests that differ in min and in max followed
\* one another, and the requested configuration is that of the second.
C33_Witness ==
    \E a, b, c, d \in Units :
        /\ a # c /\ b # d
        /\ calls.prev.event = ScaleEvent(a, b) /\ calls.prev.result # Thrown
        /\ calls.last.event = ScaleEvent(c, d) /\ calls.last.result # Thrown
        /\ requested = PutScaling(c, d)

\* C34, as claimed: a Job whose status is 'processing' eventually has status
\* 'completed' or 'failed'.
C34_ProcessingEnds ==
    \A v \in VideoIds :
        (v \in DOMAIN videos /\ videos[v].status = "processing")
            ~> (v \in DOMAIN videos /\ videos[v].status \in {"completed", "failed"})

\* C35, as claimed: a Job has status 'queued' only while the request that wrote
\* it is about to start its execution, or with an execution started for it.
C35_QueuedHasExecution ==
    \A v \in DOMAIN videos :
        videos[v].status = "queued"
            => \/ pending[v].start > 0
               \/ \E e \in ExecIds : execs[e].videoId = v

\* C36, as claimed: a 'completed' item has no error and no failedAt, and a
\* 'failed' or 'queued' item has no result attribute and no completedAt.
C36_OutcomeFieldsMatchStatus ==
    \A v \in DOMAIN videos :
        /\ videos[v].status = "completed"
              => DOMAIN videos[v] \cap {"error", "failedAt"} = {}
        /\ videos[v].status \in {"failed", "queued"}
              => DOMAIN videos[v] \cap ResultFields = {}

\* C37: an item changes only in a step for its own Job: the UpdateCommand of a
\* triggerProcessing request for it, or a write of the processor of one of its
\* executions.
C37_NoInterferenceBetweenJobs ==
    [][\A v \in DOMAIN videos :
          videos'[v] # videos[v]
              => \/ TriggerUpdate(v)
                 \/ \E e \in ExecIds : /\ execs[e].videoId = v
                                        /\ ProcessorStep(e)]_vars

\* C37 witness: executions for two Jobs have run, one Job is 'completed' and
\* the other 'failed'.
C37_Witness ==
    \E e1, e2 \in ExecIds :
        /\ execs[e1].videoId # execs[e2].videoId
        /\ execs[e1].proc = "returned"
        /\ videos[execs[e1].videoId].status = "completed"
        /\ WroteFailed(e2)
        /\ videos[execs[e2].videoId].status = "failed"

====
